---- MODULE Spec2Model ----
(***************************************************************************)
(* Room/session state machine of the gaming backend.                       *)
(*                                                                         *)
(*   - GameRoomService (src/src/config/constants.ts, lines 31-119): the    *)
(*     in-memory room registry, a Map from room id to GameRoom.            *)
(*   - configureSocket (src/src/config/socket.ts): the per-connection      *)
(*     Socket.io event handlers.                                           *)
(*                                                                         *)
(* Node runs every handler to completion, so each handler is one action.   *)
(* The registry Map is a sequence of rooms in insertion order (the order   *)
(* Map.values() iterates in).  socket.rooms is the set of transport groups *)
(* of a socket; it holds the socket's own id from connect until the        *)
(* transport empties it on disconnect.  Room ids sent by clients are drawn *)
(* from a set disjoint from the socket ids.                                *)
(* A missing (falsy) field of an inbound payload is the empty string.      *)
(***************************************************************************)
EXTENDS Integers, Sequences, FiniteSets, TLC

\* ---------------------------------------------------------------------------
\* Bounds and input sets
\* ---------------------------------------------------------------------------
MaxJoins == 3
\* Room objects one GameRoomService allocates, and entries per player list,
\* when the service is driven directly
MaxObjects == 2
MaxPlayers == 2

Sockets == {"s1", "s2"}
RoomIds == {"R1", "R2"}
\* every client sends its own display name, or none
NameOf == [s \in Sockets |-> IF s = "s1" THEN "Ann" ELSE "Bob"]
Missing == ""
Messages == {"hi"}
GameTypes == {"tictactoe"}
Boards == {"b"}
Symbols == {"X", "O"}
GameStates == {"playing"}
\* the room id a caller of the service uses when it drives it directly
ServiceRoomIds == {"R1"}

VARIABLES
    rooms,        \* GameRoomService.rooms, in Map insertion order
    socketRooms,  \* socket.rooms of every socket
    conn,         \* life cycle of every socket: "new", "open", "closed"
    now,          \* the clock read by new Date()
    last,         \* the inbound event handled by the latest handler run
    outbox,       \* the emissions of the latest handler run, in order
    inbox,        \* per socket: first event delivered, connection_response count
    objects,      \* every Room object a GameRoomService has allocated
    roomsMap,     \* that service's Map, as references into objects
    returned,     \* the array an earlier getAllRooms() call returned
    result        \* what the latest boolean call on that service returned

handlerVars == <<rooms, socketRooms, conn, now, last, outbox, inbox>>
serviceVars == <<objects, roomsMap, returned, result>>
vars == <<rooms, socketRooms, conn, now, last, outbox, inbox,
          objects, roomsMap, returned, result>>

\* ---------------------------------------------------------------------------
\* Sequence helpers (Array.prototype)
\* ---------------------------------------------------------------------------
Range(s) == {s[i] : i \in 1..Len(s)}

\* Array.prototype.splice(index, 1)
Splice(s, index) == [i \in 1..(Len(s) - 1) |-> IF i < index THEN s[i] ELSE s[i + 1]]

\* Array.prototype.findIndex, 1-based; 0 stands for -1
FindIndex(s, socketId) ==
    IF \E i \in 1..Len(s) : s[i].socketId = socketId
    THEN CHOOSE i \in 1..Len(s) :
            /\ s[i].socketId = socketId
            /\ \A j \in 1..(i - 1) : s[j].socketId # socketId
    ELSE 0

\* ---------------------------------------------------------------------------
\* GameRoomService: every operation takes the Map and returns the new Map
\* ---------------------------------------------------------------------------
\* Map.has
roomExists(m, roomId) == \E i \in 1..Len(m) : m[i].id = roomId

\* position of a key in the Map, 0 when absent
RoomIndex(m, roomId) ==
    IF roomExists(m, roomId) THEN CHOOSE i \in 1..Len(m) : m[i].id = roomId ELSE 0

\* Map.set of a fresh room: an existing key keeps its position
createRoom(m, roomId) ==
    LET room == [id |-> roomId, players |-> <<>>, gameState |-> "null"]
    IN IF roomExists(m, roomId)
       THEN [m EXCEPT ![RoomIndex(m, roomId)] = room]
       ELSE Append(m, room)

\* a deleteRoom that leaves the Map alone
deleteRoomKept(m, roomId) == m

\* Map.delete
deleteRoom(m, roomId) ==
    IF roomExists(m, roomId) THEN Splice(m, RoomIndex(m, roomId)) ELSE m

deleteRoomResult(m, roomId) == roomExists(m, roomId)

\* an addPlayerToRoom that inserts at the front (unshift)
addPlayerToRoomFront(m, roomId, player) ==
    IF ~roomExists(m, roomId) THEN m
    ELSE [m EXCEPT ![RoomIndex(m, roomId)].players = <<player>> \o @]

addPlayerToRoom(m, roomId, player) ==
    IF ~roomExists(m, roomId) THEN m
    ELSE [m EXCEPT ![RoomIndex(m, roomId)].players = Append(@, player)]

addPlayerToRoomResult(m, roomId) == roomExists(m, roomId)

removePlayerFromRoom(m, roomId, socketId) ==
    IF ~roomExists(m, roomId) THEN m
    ELSE LET r == RoomIndex(m, roomId)
             index == FindIndex(m[r].players, socketId)
         IN IF index = 0 THEN m
            ELSE [m EXCEPT ![r].players = Splice(@, index)]

removePlayerFromRoomResult(m, roomId, socketId) ==
    /\ roomExists(m, roomId)
    /\ FindIndex(m[RoomIndex(m, roomId)].players, socketId) # 0

getRoomPlayers(m, roomId) ==
    IF roomExists(m, roomId) THEN m[RoomIndex(m, roomId)].players ELSE <<>>

getAllRooms(m) == m

\* ---------------------------------------------------------------------------
\* Transport (Socket.io) primitives used by the handlers
\* ---------------------------------------------------------------------------
\* io.to(group): every socket whose socket.rooms holds the group (the
\* socket.rooms of a socket that is not open is empty)
IoTo(sr, group) == {s \in Sockets : group \in sr[s]}

\* socket.to(group): the same, without the sending socket
SocketTo(sr, socket, group) == IoTo(sr, group) \ {socket}

Emit(event, target, to, payload) ==
    [event |-> event, target |-> target, to |-> to, payload |-> payload]

\* what the transport has delivered to each socket so far: the name of the
\* first event it received and how many connection_response events
RECURSIVE Deliver(_, _)
Deliver(box, out) ==
    IF out = <<>>
    THEN box
    ELSE LET e == Head(out)
             got == [s \in Sockets |->
                        IF s \in e.to
                        THEN [first |-> IF box[s].first = "none"
                                        THEN e.event ELSE box[s].first,
                              responses |-> IF e.event = "connection_response"
                                            THEN box[s].responses + 1
                                            ELSE box[s].responses]
                        ELSE box[s]]
         IN Deliver(got, Tail(out))

\* ---------------------------------------------------------------------------
\* Initial state
\* ---------------------------------------------------------------------------
Init ==
    /\ rooms = <<>>
    /\ socketRooms = [s \in Sockets |-> {}]
    /\ conn = [s \in Sockets |-> "new"]
    /\ now = 0
    /\ last = [type |-> "none"]
    /\ outbox = <<>>
    /\ inbox = [s \in Sockets |-> [first |-> "none", responses |-> 0]]
    /\ objects = <<>>
    /\ roomsMap = <<>>
    /\ returned = [taken |-> FALSE, refs |-> <<>>]
    /\ result = "none"

\* a connection handler that answers with io.emit instead of socket.emit
ConnectionBroadcast(socket) ==
    /\ conn[socket] = "new"
    /\ conn' = [conn EXCEPT ![socket] = "open"]
    /\ socketRooms' = [socketRooms EXCEPT ![socket] = {socket}]
    /\ last' = [type |-> "connection", socket |-> socket]
    /\ outbox' = << Emit("connection_response", socket,
                         {s \in Sockets : conn'[s] = "open"},
                         [status |-> "connected", socketId |-> socket]) >>
    /\ UNCHANGED <<rooms, now>>
    /\ inbox' = Deliver(inbox, outbox')
    /\ UNCHANGED serviceVars

\* io.on('connection')
Connection(socket) ==
    /\ conn[socket] = "new"
    /\ conn' = [conn EXCEPT ![socket] = "open"]
    /\ socketRooms' = [socketRooms EXCEPT ![socket] = {socket}]
    /\ last' = [type |-> "connection", socket |-> socket]
    /\ outbox' = << Emit("connection_response", socket, {socket},
                         [status |-> "connected", socketId |-> socket]) >>
    /\ UNCHANGED <<rooms, now>>
    /\ inbox' = Deliver(inbox, outbox')
    /\ UNCHANGED serviceVars

\* a join_room that leaves the previous room before it validates the payload
JoinRoomLeavesFirst(socket, roomId, playerName) ==
    /\ conn[socket] = "open"
    /\ last' = [type |-> "join_room", socket |-> socket,
                roomId |-> roomId, playerName |-> playerName]
    /\ LET mine == socketRooms[socket]
           previousRoom == CHOOSE room \in mine : room # socket
           left == IF Cardinality(mine) > 1 THEN mine \ {previousRoom} ELSE mine
       IN IF roomId = Missing \/ playerName = Missing
          THEN /\ outbox' = << Emit("join_room_response", socket, {socket},
                                    [status |-> "error",
                                     message |-> "Room ID and player name are required"]) >>
               /\ socketRooms' = [socketRooms EXCEPT ![socket] = left]
               /\ UNCHANGED <<rooms, conn, now>>
          ELSE /\ now < MaxJoins
               /\ now' = now + 1
               /\ LET sr == [socketRooms EXCEPT ![socket] = left \cup {roomId}]
                      created == IF ~roomExists(rooms, roomId)
                                 THEN createRoom(rooms, roomId) ELSE rooms
                      added == addPlayerToRoom(created, roomId,
                                   [socketId |-> socket, name |-> playerName,
                                    joinedAt |-> now'])
                      players == getRoomPlayers(added, roomId)
                  IN /\ socketRooms' = sr
                     /\ rooms' = added
                     /\ outbox' = << Emit("player_joined", roomId, IoTo(sr, roomId),
                                          [roomId |-> roomId, players |-> players,
                                           message |-> <<playerName, "has joined the room">>,
                                           playerCount |-> Len(players)]),
                                     Emit("join_room_response", socket, {socket},
                                          [status |-> "success", roomId |-> roomId,
                                           players |-> players,
                                           message |-> <<"You have joined room", roomId>>]) >>
               /\ UNCHANGED conn
    /\ inbox' = Deliver(inbox, outbox')
    /\ UNCHANGED serviceVars

\* a join_room that calls createRoom without asking roomExists first
JoinRoomAlwaysCreates(socket, roomId, playerName) ==
    /\ conn[socket] = "open"
    /\ last' = [type |-> "join_room", socket |-> socket,
                roomId |-> roomId, playerName |-> playerName]
    /\ IF roomId = Missing \/ playerName = Missing
       THEN /\ outbox' = << Emit("join_room_response", socket, {socket},
                                 [status |-> "error",
                                  message |-> "Room ID and player name are required"]) >>
            /\ UNCHANGED <<rooms, socketRooms, conn, now>>
       ELSE /\ now < MaxJoins
            /\ now' = now + 1
            /\ LET mine == socketRooms[socket]
                   previousRoom == CHOOSE room \in mine : room # socket
                   left == IF Cardinality(mine) > 1 THEN mine \ {previousRoom} ELSE mine
                   sr == [socketRooms EXCEPT ![socket] = left \cup {roomId}]
                   created == createRoom(rooms, roomId)
                   added == addPlayerToRoom(created, roomId,
                                [socketId |-> socket, name |-> playerName,
                                 joinedAt |-> now'])
                   players == getRoomPlayers(added, roomId)
               IN /\ socketRooms' = sr
                  /\ rooms' = added
                  /\ outbox' = << Emit("player_joined", roomId, IoTo(sr, roomId),
                                       [roomId |-> roomId, players |-> players,
                                        message |-> <<playerName, "has joined the room">>,
                                        playerCount |-> Len(players)]),
                                  Emit("join_room_response", socket, {socket},
                                       [status |-> "success", roomId |-> roomId,
                                        players |-> players,
                                        message |-> <<"You have joined room", roomId>>]) >>
            /\ UNCHANGED conn
    /\ inbox' = Deliver(inbox, outbox')
    /\ UNCHANGED serviceVars

\* socket.on('join_room')
JoinRoom(socket, roomId, playerName) ==
    /\ conn[socket] = "open"
    /\ last' = [type |-> "join_room", socket |-> socket,
                roomId |-> roomId, playerName |-> playerName]
    /\ IF roomId = Missing \/ playerName = Missing
       THEN /\ outbox' = << Emit("join_room_response", socket, {socket},
                                 [status |-> "error",
                                  message |-> "Room ID and player name are required"]) >>
            /\ UNCHANGED <<rooms, socketRooms, conn, now>>
       ELSE /\ now < MaxJoins
            /\ now' = now + 1
            /\ LET mine == socketRooms[socket]
                   previousRoom == CHOOSE room \in mine : room # socket
                   left == IF Cardinality(mine) > 1 THEN mine \ {previousRoom} ELSE mine
                   sr == [socketRooms EXCEPT ![socket] = left \cup {roomId}]
                   created == IF ~roomExists(rooms, roomId)
                              THEN createRoom(rooms, roomId) ELSE rooms
                   added == addPlayerToRoom(created, roomId,
                                [socketId |-> socket, name |-> playerName,
                                 joinedAt |-> now'])
                   players == getRoomPlayers(added, roomId)
               IN /\ socketRooms' = sr
                  /\ rooms' = added
                  /\ outbox' = << Emit("player_joined", roomId, IoTo(sr, roomId),
                                       [roomId |-> roomId, players |-> players,
                                        message |-> <<playerName, "has joined the room">>,
                                        playerCount |-> Len(players)]),
                                  Emit("join_room_response", socket, {socket},
                                       [status |-> "success", roomId |-> roomId,
                                        players |-> players,
                                        message |-> <<"You have joined room", roomId>>]) >>
            /\ UNCHANGED conn
    /\ inbox' = Deliver(inbox, outbox')
    /\ UNCHANGED serviceVars

\* a send_message that broadcasts without looking the room up
SendMessageUnchecked(socket, roomId, playerName, message) ==
    /\ conn[socket] = "open"
    /\ last' = [type |-> "send_message", socket |-> socket, roomId |-> roomId,
                playerName |-> playerName, message |-> message]
    /\ outbox' =
         IF roomId = Missing \/ message = Missing
         THEN << Emit("message_response", socket, {socket},
                      [status |-> "error",
                       message |-> "Room ID and message content are required"]) >>
         ELSE << Emit("receive_message", roomId, IoTo(socketRooms, roomId),
                      [senderId |-> socket, senderName |-> playerName,
                       content |-> message, timestamp |-> now,
                       roomId |-> roomId]) >>
    /\ UNCHANGED <<rooms, socketRooms, conn, now>>
    /\ inbox' = Deliver(inbox, outbox')
    /\ UNCHANGED serviceVars

\* socket.on('send_message')
SendMessage(socket, roomId, playerName, message) ==
    /\ conn[socket] = "open"
    /\ last' = [type |-> "send_message", socket |-> socket, roomId |-> roomId,
                playerName |-> playerName, message |-> message]
    /\ outbox' =
         IF roomId = Missing \/ message = Missing
         THEN << Emit("message_response", socket, {socket},
                      [status |-> "error",
                       message |-> "Room ID and message content are required"]) >>
         ELSE IF ~roomExists(rooms, roomId)
         THEN << Emit("message_response", socket, {socket},
                      [status |-> "error",
                       message |-> <<"Room", roomId, "does not exist">>]) >>
         ELSE << Emit("receive_message", roomId, IoTo(socketRooms, roomId),
                      [senderId |-> socket, senderName |-> playerName,
                       content |-> message, timestamp |-> now,
                       roomId |-> roomId]) >>
    /\ UNCHANGED <<rooms, socketRooms, conn, now>>
    /\ inbox' = Deliver(inbox, outbox')
    /\ UNCHANGED serviceVars

\* socket.on('leave_room')
LeaveRoom(socket, roomId, playerName) ==
    /\ conn[socket] = "open"
    /\ last' = [type |-> "leave_room", socket |-> socket,
                roomId |-> roomId, playerName |-> playerName]
    /\ IF roomId = Missing
       THEN /\ outbox' = << Emit("leave_room_response", socket, {socket},
                                 [status |-> "error",
                                  message |-> "Room ID is required"]) >>
            /\ UNCHANGED <<rooms, socketRooms>>
       ELSE IF ~roomExists(rooms, roomId)
       THEN /\ outbox' = << Emit("leave_room_response", socket, {socket},
                                 [status |-> "error",
                                  message |-> <<"Room", roomId, "does not exist">>]) >>
            /\ UNCHANGED <<rooms, socketRooms>>
       ELSE LET sr == [socketRooms EXCEPT ![socket] = @ \ {roomId}]
                removed == removePlayerFromRoom(rooms, roomId, socket)
                players == getRoomPlayers(removed, roomId)
                response == Emit("leave_room_response", socket, {socket},
                                 [status |-> "success",
                                  message |-> <<"You have left room", roomId>>])
            IN /\ socketRooms' = sr
               /\ IF Len(players) > 0
                  THEN /\ rooms' = removed
                       /\ outbox' = << Emit("player_left", roomId, IoTo(sr, roomId),
                                            [roomId |-> roomId, players |-> players,
                                             message |-> <<playerName, "has left the room">>,
                                             playerCount |-> Len(players)]),
                                       response >>
                  ELSE /\ rooms' = deleteRoom(removed, roomId)
                       /\ outbox' = << response >>
    /\ UNCHANGED <<conn, now>>
    /\ inbox' = Deliver(inbox, outbox')
    /\ UNCHANGED serviceVars

\* a game_start that hands X to the second player and O to the first
gameStartEmitsSwapped(sr, m, roomId, gameType) ==
    IF roomId = Missing \/ gameType = Missing
    THEN <<>>
    ELSE LET players == getRoomPlayers(m, roomId)
             gameStartData ==
                 [idx \in 1..Len(players) |->
                     [name |-> players[idx].name,
                      socketId |-> players[idx].socketId,
                      symbol |-> IF idx = 1 THEN "X" ELSE "O"]]
         IN IF Len(players) < 2
            THEN <<>>
            ELSE << Emit("game_start", players[2].socketId,
                         IoTo(sr, players[2].socketId),
                         [gameType |-> gameType, players |-> gameStartData,
                          playerSymbol |-> "X"]),
                    Emit("game_start", players[1].socketId,
                         IoTo(sr, players[1].socketId),
                         [gameType |-> gameType, players |-> gameStartData,
                          playerSymbol |-> "O"]) >>

\* the emissions of the game_start handler
gameStartEmits(sr, m, roomId, gameType) ==
    IF roomId = Missing \/ gameType = Missing
    THEN <<>>
    ELSE LET players == getRoomPlayers(m, roomId)
             gameStartData ==
                 [idx \in 1..Len(players) |->
                     [name |-> players[idx].name,
                      socketId |-> players[idx].socketId,
                      symbol |-> IF idx = 1 THEN "X" ELSE "O"]]
         IN IF Len(players) < 2
            THEN <<>>
            ELSE << Emit("game_start", players[1].socketId,
                         IoTo(sr, players[1].socketId),
                         [gameType |-> gameType, players |-> gameStartData,
                          playerSymbol |-> "X"]),
                    Emit("game_start", players[2].socketId,
                         IoTo(sr, players[2].socketId),
                         [gameType |-> gameType, players |-> gameStartData,
                          playerSymbol |-> "O"]) >>

\* socket.on('game_start')
GameStart(socket, roomId, playerName, gameType) ==
    /\ conn[socket] = "open"
    /\ last' = [type |-> "game_start", socket |-> socket, roomId |-> roomId,
                playerName |-> playerName, gameType |-> gameType]
    /\ outbox' = gameStartEmits(socketRooms, rooms, roomId, gameType)
    /\ UNCHANGED <<rooms, socketRooms, conn, now>>
    /\ inbox' = Deliver(inbox, outbox')
    /\ UNCHANGED serviceVars

\* a game_move that relays without testing the board field
gameMoveEmitsUnchecked(sr, socket, roomId, playerName, board, playerSymbol) ==
    IF roomId = Missing
    THEN <<>>
    ELSE << Emit("game_move", roomId, SocketTo(sr, socket, roomId),
                 [board |-> board, playerSymbol |-> playerSymbol,
                  playerName |-> playerName]) >>

\* the emissions of the game_move handler
gameMoveEmits(sr, socket, roomId, playerName, board, playerSymbol) ==
    IF roomId = Missing \/ board = Missing
    THEN <<>>
    ELSE << Emit("game_move", roomId, SocketTo(sr, socket, roomId),
                 [board |-> board, playerSymbol |-> playerSymbol,
                  playerName |-> playerName]) >>

\* a game_move handler that keeps the board with updateGameState
GameMoveStoresBoard(socket, roomId, playerName, board, playerSymbol) ==
    /\ conn[socket] = "open"
    /\ last' = [type |-> "game_move", socket |-> socket, roomId |-> roomId,
                playerName |-> playerName, board |-> board,
                playerSymbol |-> playerSymbol]
    /\ outbox' = gameMoveEmits(socketRooms, socket, roomId, playerName, board, playerSymbol)
    /\ rooms' = IF roomExists(rooms, roomId) /\ board # Missing
                THEN [rooms EXCEPT ![RoomIndex(rooms, roomId)].gameState = board]
                ELSE rooms
    /\ UNCHANGED <<socketRooms, conn, now>>
    /\ inbox' = Deliver(inbox, outbox')
    /\ UNCHANGED serviceVars

\* socket.on('game_move')
GameMove(socket, roomId, playerName, board, playerSymbol) ==
    /\ conn[socket] = "open"
    /\ last' = [type |-> "game_move", socket |-> socket, roomId |-> roomId,
                playerName |-> playerName, board |-> board,
                playerSymbol |-> playerSymbol]
    /\ outbox' = gameMoveEmits(socketRooms, socket, roomId, playerName, board, playerSymbol)
    /\ UNCHANGED <<rooms, socketRooms, conn, now>>
    /\ inbox' = Deliver(inbox, outbox')
    /\ UNCHANGED serviceVars

\* the emissions of the game_reset handler
gameResetEmits(sr, socket, roomId, playerName) ==
    IF roomId = Missing
    THEN <<>>
    ELSE << Emit("game_reset", roomId, SocketTo(sr, socket, roomId),
                 [playerName |-> playerName]) >>

\* socket.on('game_reset')
GameReset(socket, roomId, playerName) ==
    /\ conn[socket] = "open"
    /\ last' = [type |-> "game_reset", socket |-> socket, roomId |-> roomId,
                playerName |-> playerName]
    /\ outbox' = gameResetEmits(socketRooms, socket, roomId, playerName)
    /\ UNCHANGED <<rooms, socketRooms, conn, now>>
    /\ inbox' = Deliver(inbox, outbox')
    /\ UNCHANGED serviceVars

\* allRooms.forEach of the disconnect handler: the rooms of the snapshot from
\* position i on, applied to the registry m; the result is the registry and
\* the emissions, in order
RECURSIVE DisconnectScan(_, _, _, _, _, _)
DisconnectScan(allRooms, i, socket, sr, m, out) ==
    IF i > Len(allRooms) THEN [rooms |-> m, outbox |-> out]
    ELSE LET id == allRooms[i].id
             found == FindIndex(getRoomPlayers(m, id), socket)
         IN IF found = 0
            THEN DisconnectScan(allRooms, i + 1, socket, sr, m, out)
            ELSE LET player == getRoomPlayers(m, id)[found]
                     removed == removePlayerFromRoom(m, id, socket)
                     remainingPlayers == getRoomPlayers(removed, id)
                 IN IF Len(remainingPlayers) > 0
                    THEN DisconnectScan(allRooms, i + 1, socket, sr, removed,
                            Append(out,
                                Emit("player_left", id, IoTo(sr, id),
                                     [roomId |-> id, players |-> remainingPlayers,
                                      message |-> <<player.name, "has left the room">>,
                                      playerCount |-> Len(remainingPlayers)])))
                    ELSE DisconnectScan(allRooms, i + 1, socket, sr,
                                        deleteRoom(removed, id), out)

\* socket.on('disconnect'): the transport has emptied socket.rooms before the
\* handler runs
Disconnect(socket) ==
    /\ conn[socket] = "open"
    /\ conn' = [conn EXCEPT ![socket] = "closed"]
    /\ last' = [type |-> "disconnect", socket |-> socket]
    /\ LET sr == [socketRooms EXCEPT ![socket] = {}]
           done == DisconnectScan(getAllRooms(rooms), 1, socket, sr, rooms, <<>>)
       IN /\ socketRooms' = sr
          /\ rooms' = done.rooms
          /\ outbox' = done.outbox
    /\ UNCHANGED now
    /\ inbox' = Deliver(inbox, outbox')
    /\ UNCHANGED serviceVars

OrMissing(S) == S \cup {Missing}

\* playerName is tested by join_room only; the other events pass it through
Next ==
    \/ \E socket \in Sockets : Connection(socket)
    \/ \E socket \in Sockets, roomId \in OrMissing(RoomIds) :
          \E playerName \in OrMissing({NameOf[socket]}) :
             JoinRoom(socket, roomId, playerName)
    \/ \E socket \in Sockets, roomId \in OrMissing(RoomIds), message \in OrMissing(Messages) :
          SendMessage(socket, roomId, NameOf[socket], message)
    \/ \E socket \in Sockets, roomId \in OrMissing(RoomIds) :
          LeaveRoom(socket, roomId, NameOf[socket])
    \/ \E socket \in Sockets, roomId \in OrMissing(RoomIds), gameType \in OrMissing(GameTypes) :
          GameStart(socket, roomId, NameOf[socket], gameType)
    \/ \E socket \in Sockets, roomId \in OrMissing(RoomIds), board \in OrMissing(Boards),
          playerSymbol \in Symbols :
          GameMove(socket, roomId, NameOf[socket], board, playerSymbol)
    \/ \E socket \in Sockets, roomId \in OrMissing(RoomIds) :
          GameReset(socket, roomId, NameOf[socket])
    \/ \E socket \in Sockets : Disconnect(socket)

Spec == Init /\ [][Next]_vars

\* ---------------------------------------------------------------------------
\* GameRoomService with object identity: a caller that drives the service
\* directly and keeps the array getAllRooms() gave it. A Room is an object
\* on the heap (objects, in allocation order); the Map holds references, in
\* insertion order, under the key room.id.
\* ---------------------------------------------------------------------------
\* the rooms of the Map as values, in insertion order
RoomValues(objs, map) == [i \in 1..Len(map) |-> objs[map[i]]]

\* Map.get: the reference stored under roomId, 0 for undefined
MapGet(objs, map, roomId) ==
    IF roomExists(RoomValues(objs, map), roomId)
    THEN map[RoomIndex(RoomValues(objs, map), roomId)]
    ELSE 0

\* the boolean a call returned, as kept in result ("none" before any call)
Returned(b) == IF b THEN "true" ELSE "false"

\* garbage collection: a Room that neither the Map nor the returned array
\* references any more is reclaimed (its slot is never used again)
Reclaimed == [id |-> "", players |-> <<>>, gameState |-> "null"]

Collect(objs, map, ret) ==
    [ref \in 1..Len(objs) |->
        IF ref \in Range(map) \cup Range(ret.refs) THEN objs[ref] ELSE Reclaimed]

\* createRoom: a new Room object, stored with Map.set
CallCreateRoom(roomId) ==
    /\ Len(objects) < MaxObjects
    /\ LET room == [id |-> roomId, players |-> <<>>, gameState |-> "null"]
           ref == Len(objects) + 1
           values == RoomValues(objects, roomsMap)
           map == IF roomExists(values, roomId)
                  THEN [roomsMap EXCEPT ![RoomIndex(values, roomId)] = ref]
                  ELSE Append(roomsMap, ref)
       IN /\ roomsMap' = map
          /\ objects' = Collect(Append(objects, room), map, returned)
    /\ UNCHANGED <<returned, result>>
    /\ UNCHANGED handlerVars

\* deleteRoom: Map.delete and its result
CallDeleteRoom(roomId) ==
    /\ LET values == RoomValues(objects, roomsMap)
           map == IF roomExists(values, roomId)
                  THEN Splice(roomsMap, RoomIndex(values, roomId))
                  ELSE roomsMap
       IN /\ roomsMap' = map
          /\ objects' = Collect(objects, map, returned)
          /\ result' = Returned(deleteRoomResult(values, roomId))
    /\ UNCHANGED returned
    /\ UNCHANGED handlerVars

\* addPlayerToRoom: push on the players array of the Room the Map holds
CallAddPlayerToRoom(roomId, player) ==
    /\ Len(getRoomPlayers(RoomValues(objects, roomsMap), roomId)) < MaxPlayers
    /\ LET room == MapGet(objects, roomsMap, roomId)
       IN /\ objects' = IF room = 0 THEN objects
                        ELSE [objects EXCEPT ![room].players = Append(@, player)]
          /\ result' = Returned(room # 0)
    /\ UNCHANGED <<roomsMap, returned>>
    /\ UNCHANGED handlerVars

\* a removePlayerFromRoom that filters out every entry of the socket
CallRemovePlayerFromRoomAll(roomId, socketId) ==
    /\ LET room == MapGet(objects, roomsMap, roomId)
           index == IF room = 0 THEN 0
                    ELSE FindIndex(objects[room].players, socketId)
       IN /\ objects' = IF index = 0 THEN objects
                        ELSE [objects EXCEPT ![room].players =
                                 SelectSeq(@, LAMBDA p : p.socketId # socketId)]
          /\ result' = Returned(index # 0)
    /\ UNCHANGED <<roomsMap, returned>>
    /\ UNCHANGED handlerVars

\* removePlayerFromRoom: findIndex, then splice(index, 1) in place
CallRemovePlayerFromRoom(roomId, socketId) ==
    /\ LET room == MapGet(objects, roomsMap, roomId)
           index == IF room = 0 THEN 0
                    ELSE FindIndex(objects[room].players, socketId)
       IN /\ objects' = IF index = 0 THEN objects
                        ELSE [objects EXCEPT ![room].players = Splice(@, index)]
          /\ result' = Returned(index # 0)
    /\ UNCHANGED <<roomsMap, returned>>
    /\ UNCHANGED handlerVars

\* updateGameState: assignment to room.gameState
CallUpdateGameState(roomId, state) ==
    /\ LET room == MapGet(objects, roomsMap, roomId)
       IN /\ objects' = IF room = 0 THEN objects
                        ELSE [objects EXCEPT ![room].gameState = state]
          /\ result' = Returned(room # 0)
    /\ UNCHANGED <<roomsMap, returned>>
    /\ UNCHANGED handlerVars

\* getAllRooms: Array.from(this.rooms.values()), a new array holding the
\* references the Map holds at the call; the array of the earlier call is
\* dropped
CallGetAllRooms ==
    /\ returned' = [taken |-> TRUE, refs |-> roomsMap]
    /\ objects' = Collect(objects, roomsMap, returned')
    /\ UNCHANGED <<roomsMap, result>>
    /\ UNCHANGED handlerVars

\* what a reader of the returned array sees: returned[i].id, .players, ...
ReturnedRooms(objs, ret) == [i \in 1..Len(ret.refs) |-> objs[ret.refs[i]]]

\* the entry a caller adds: stamped with its position in the list
NewPlayer(roomId, socketId) ==
    [socketId |-> socketId, name |-> NameOf[socketId],
     joinedAt |-> Len(getRoomPlayers(RoomValues(objects, roomsMap), roomId)) + 1]

ServiceNext ==
    \/ \E roomId \in ServiceRoomIds : CallCreateRoom(roomId)
    \/ \E roomId \in ServiceRoomIds : CallDeleteRoom(roomId)
    \/ \E roomId \in ServiceRoomIds, socketId \in Sockets :
          CallAddPlayerToRoom(roomId, NewPlayer(roomId, socketId))
    \/ \E roomId \in ServiceRoomIds, socketId \in Sockets :
          CallRemovePlayerFromRoom(roomId, socketId)
    \/ \E roomId \in ServiceRoomIds, state \in GameStates :
          CallUpdateGameState(roomId, state)
    \/ CallGetAllRooms

ServiceSpec == Init /\ [][ServiceNext]_vars

\* ---------------------------------------------------------------------------
\* Well-formedness of the model's state
\* ---------------------------------------------------------------------------
\* the Map has unique keys, and a socket is in at most one group besides its
\* own (which makes previousRoom of join_room unique)
WellFormed ==
    /\ \A i, j \in 1..Len(rooms) : rooms[i].id = rooms[j].id => i = j
    /\ \A s \in Sockets :
          /\ Cardinality(socketRooms[s] \ {s}) <= 1
          /\ (conn[s] = "open") = (s \in socketRooms[s])
          /\ conn[s] # "open" => socketRooms[s] = {}
    /\ now \in 0..MaxJoins

\* the sockets listed in a room's player list
Occupants(m, roomId) == {p.socketId : p \in Range(getRoomPlayers(m, roomId))}

\* the rooms whose player list holds an entry of the socket
RoomsOf(m, socket) == {r \in RoomIds : socket \in Occupants(m, r)}

\* the emissions of the latest handler run that carry the event
Emitted(event) == {i \in 1..Len(outbox) : outbox[i].event = event}

\* ---------------------------------------------------------------------------
\* C1: between handler runs a room id is in the registry if and only if the
\* room's player list has at least one entry.
\* ---------------------------------------------------------------------------
C1_RoomIffPlayers ==
    /\ \A i \in 1..Len(rooms) : Len(rooms[i].players) > 0
    /\ \A r \in RoomIds : roomExists(rooms, r) <=> Len(getRoomPlayers(rooms, r)) > 0

\* a leave_room has just removed the last player of R1 and the room is gone
C1_Witness ==
    /\ last.type = "leave_room"
    /\ last.roomId = "R1"
    /\ outbox # <<>>
    /\ outbox[Len(outbox)].payload.status = "success"
    /\ ~roomExists(rooms, "R1")
    /\ roomExists(rooms, "R2")

\* ---------------------------------------------------------------------------
\* C2: every connection id is listed in the player list of at most one room;
\* after a join of room B by a connection listed in room A it is listed in B
\* and no longer in A.
\* ---------------------------------------------------------------------------
C2_AtMostOneRoom ==
    \A s \in Sockets : Cardinality(RoomsOf(rooms, s)) <= 1

\* ---------------------------------------------------------------------------
\* C3: no room's player list holds two entries with the same connection id.
\* ---------------------------------------------------------------------------
C3_NoDuplicateEntries ==
    \A r \in 1..Len(rooms) :
       \A i, j \in 1..Len(rooms[r].players) :
          rooms[r].players[i].socketId = rooms[r].players[j].socketId => i = j

\* ---------------------------------------------------------------------------
\* C4: for every live connection c and room id R, c is in the transport group
\* R if and only if the registry's player list of R holds an entry of c.
\* ---------------------------------------------------------------------------
C4_GroupsMatchRegistry ==
    \A s \in Sockets : conn[s] = "open" =>
       \A r \in RoomIds : (r \in socketRooms[s]) <=> (s \in Occupants(rooms, r))

\* ---------------------------------------------------------------------------
\* C5: when a connection is closed, a room it was the sole occupant of is
\* deleted and no player_left is emitted for it; a room with other occupants
\* stays, without the closed connection, and a player_left carrying the
\* remaining roster is broadcast to the remaining occupants.
\* ---------------------------------------------------------------------------
Live(S) == {s \in S : conn[s] = "open"}

C5_DisconnectStep(r) ==
    LET socket == last'.socket
    IN IF Occupants(rooms, r) = {socket}
       THEN /\ ~roomExists(rooms', r)
            /\ \A i \in 1..Len(outbox') :
                  ~(outbox'[i].event = "player_left" /\ outbox'[i].target = r)
       ELSE /\ roomExists(rooms', r)
            /\ socket \notin Occupants(rooms', r)
            /\ \E i \in 1..Len(outbox') :
                  /\ outbox'[i].event = "player_left"
                  /\ outbox'[i].target = r
                  /\ outbox'[i].payload.players = getRoomPlayers(rooms', r)
                  /\ outbox'[i].to = Live(Occupants(rooms', r))

C5_DisconnectCleansUp ==
    [][ last'.type = "disconnect" =>
           \A r \in RoomsOf(rooms, last'.socket) : C5_DisconnectStep(r) ]_vars

\* the same, from states in which the registry and the groups agree and no
\* list holds a connection twice: there the disconnect handler does as C5 says
C5_HoldsWhenConsistent ==
    [][ (last'.type = "disconnect" /\ C3_NoDuplicateEntries /\ C4_GroupsMatchRegistry) =>
           \A r \in RoomsOf(rooms, last'.socket) : C5_DisconnectStep(r) ]_vars

\* ---------------------------------------------------------------------------
\* C6: a game_start with roomId and gameType for a room with exactly 2
\* players sends a game_start with playerSymbol X to the player added first
\* and one with playerSymbol O to the player added second, whoever sent it.
\* ---------------------------------------------------------------------------
C6_Sent(player, symbol) ==
    \E i \in 1..Len(outbox) :
       /\ outbox[i].event = "game_start"
       /\ outbox[i].target = player.socketId
       /\ outbox[i].to = Live({player.socketId})
       /\ outbox[i].payload.playerSymbol = symbol

C6_SymbolsByJoinOrder ==
    LET players == getRoomPlayers(rooms, last.roomId)
    IN (/\ last.type = "game_start"
        /\ last.roomId # Missing
        /\ last.gameType # Missing
        /\ Len(players) = 2)
       => LET first == CHOOSE p \in Range(players) :
                          \A q \in Range(players) : p.joinedAt <= q.joinedAt
              second == CHOOSE p \in Range(players) :
                          \A q \in Range(players) : p.joinedAt >= q.joinedAt
          IN /\ Len(outbox) = 2
             /\ first # second
             /\ C6_Sent(first, "X")
             /\ C6_Sent(second, "O")

\* s2 joined R1 first, s1 second (after leaving and joining again), and s1
\* sends game_start
C6_Witness ==
    /\ last.type = "game_start"
    /\ last.socket = "s1"
    /\ last.roomId = "R1"
    /\ last.gameType # Missing
    /\ Len(getRoomPlayers(rooms, "R1")) = 2
    /\ getRoomPlayers(rooms, "R1")[1].socketId = "s2"
    /\ getRoomPlayers(rooms, "R1")[2].socketId = "s1"
    /\ Len(outbox) = 2
    /\ outbox[1].to = {"s2"}
    /\ outbox[1].payload.playerSymbol = "X"

\* ---------------------------------------------------------------------------
\* C7: a game_start for a room with 0 or 1 players (or no such room), and a
\* game_start, game_move or game_reset with a required field missing, emits
\* nothing and leaves the registry and the groups unchanged.
\* ---------------------------------------------------------------------------
C7_Silent(event, m) ==
    \/ /\ event.type = "game_start"
       /\ \/ event.roomId = Missing
          \/ event.gameType = Missing
          \/ Len(getRoomPlayers(m, event.roomId)) < 2
    \/ /\ event.type = "game_move"
       /\ (event.roomId = Missing \/ event.board = Missing)
    \/ /\ event.type = "game_reset"
       /\ event.roomId = Missing

C7_SilentNoOps ==
    [][ C7_Silent(last', rooms) =>
           /\ outbox' = <<>>
           /\ rooms' = rooms
           /\ socketRooms' = socketRooms ]_vars

\* a game_start with both fields for a room that holds one player
C7_Witness ==
    /\ last.type = "game_start"
    /\ last.roomId = "R1"
    /\ last.gameType # Missing
    /\ Len(getRoomPlayers(rooms, "R1")) = 1
    /\ outbox = <<>>

\* ---------------------------------------------------------------------------
\* C8: a send_message with roomId and message, sent by an occupant of an
\* existing room, delivers exactly one receive_message to every occupant of
\* the room, the sender included, with the sender's connection id, the given
\* playerName and the given message, and to no connection outside the room.
\* ---------------------------------------------------------------------------
C8_MessageReachesOccupants ==
    (/\ last.type = "send_message"
     /\ last.roomId # Missing
     /\ last.message # Missing
     /\ roomExists(rooms, last.roomId)
     /\ last.socket \in Occupants(rooms, last.roomId))
    => /\ Len(outbox) = 1
       /\ outbox[1].event = "receive_message"
       /\ outbox[1].to = Live(Occupants(rooms, last.roomId))
       /\ last.socket \in outbox[1].to
       /\ outbox[1].payload.senderId = last.socket
       /\ outbox[1].payload.senderName = last.playerName
       /\ outbox[1].payload.content = last.message

\* what the handler does: one receive_message, with that payload, to the
\* members of the transport group of the room
C8_MessageReachesGroup ==
    (/\ last.type = "send_message"
     /\ last.roomId # Missing
     /\ last.message # Missing
     /\ roomExists(rooms, last.roomId))
    => /\ Len(outbox) = 1
       /\ outbox[1].event = "receive_message"
       /\ outbox[1].to = IoTo(socketRooms, last.roomId)
       /\ outbox[1].payload.senderId = last.socket
       /\ outbox[1].payload.senderName = last.playerName
       /\ outbox[1].payload.content = last.message

\* ---------------------------------------------------------------------------
\* C9: a successful join_room broadcasts exactly one player_joined to every
\* occupant of the joined room, the joiner included; its players array is the
\* registry roster after the join, in join order, and its playerCount is the
\* length of that array.
\* ---------------------------------------------------------------------------
C9_JoinBroadcast ==
    (/\ last.type = "join_room"
     /\ last.roomId # Missing
     /\ last.playerName # Missing)
    => /\ Cardinality(Emitted("player_joined")) = 1
       /\ \A i \in Emitted("player_joined") :
             /\ outbox[i].to = Live(Occupants(rooms, last.roomId))
             /\ last.socket \in outbox[i].to
             /\ outbox[i].payload.players = getRoomPlayers(rooms, last.roomId)
             /\ outbox[i].payload.playerCount = Len(outbox[i].payload.players)

\* what the handler does: the roster part of C9, with the broadcast going to
\* the members of the transport group of the room
C9_JoinBroadcastToGroup ==
    (/\ last.type = "join_room"
     /\ last.roomId # Missing
     /\ last.playerName # Missing)
    => /\ Cardinality(Emitted("player_joined")) = 1
       /\ \A i \in Emitted("player_joined") :
             /\ outbox[i].to = IoTo(socketRooms, last.roomId)
             /\ last.socket \in outbox[i].to
             /\ outbox[i].payload.players = getRoomPlayers(rooms, last.roomId)
             /\ outbox[i].payload.playerCount = Len(outbox[i].payload.players)

\* ---------------------------------------------------------------------------
\* C10: in every room the order of the player list is the order in which the
\* entries still present were added: an addition appends at the end, and a
\* removal takes one entry out without reordering the others.
\* ---------------------------------------------------------------------------
C10_InAddOrder(m) ==
    \A r \in 1..Len(m) :
       \A i, j \in 1..Len(m[r].players) :
          i < j => m[r].players[i].joinedAt < m[r].players[j].joinedAt

C10_ListStep(old, new) ==
    \/ new = old
    \/ \E i \in 1..Len(old) : new = Splice(old, i)
    \/ /\ Len(new) = Len(old) + 1
       /\ new = Append(old, new[Len(new)])
       /\ new[Len(new)].joinedAt = now'

C10_OrderIsAddOrder ==
    /\ [] C10_InAddOrder(rooms)
    /\ [][ \A r \in RoomIds :
              C10_ListStep(getRoomPlayers(rooms, r), getRoomPlayers(rooms', r)) ]_vars

\* R1 held s1, s2, s1 (added at 1, 2, 3); the leave_room of s1 took the first
\* entry out and left the other two in the order they were added
C10_Witness ==
    /\ last.type = "leave_room"
    /\ last.socket = "s1"
    /\ last.roomId = "R1"
    /\ getRoomPlayers(rooms, "R1") =
          << [socketId |-> "s2", name |-> "Bob", joinedAt |-> 2],
             [socketId |-> "s1", name |-> "Ann", joinedAt |-> 3] >>

\* ---------------------------------------------------------------------------
\* C11: a leave_room or send_message naming a room id that is not in the
\* registry sends exactly one error response ('Room <id> does not exist') to
\* the acting connection only, broadcasts nothing, and leaves the registry
\* and the group memberships unchanged.
\* ---------------------------------------------------------------------------
C11_AbsentRoom(event, m) ==
    /\ event.type \in {"leave_room", "send_message"}
    /\ event.roomId # Missing
    /\ event.type = "send_message" => event.message # Missing
    /\ ~roomExists(m, event.roomId)

C11_AbsentRoomError ==
    [][ C11_AbsentRoom(last', rooms) =>
           /\ Len(outbox') = 1
           /\ outbox'[1].event = IF last'.type = "leave_room"
                                 THEN "leave_room_response" ELSE "message_response"
           /\ outbox'[1].to = {last'.socket}
           /\ outbox'[1].payload.status = "error"
           /\ outbox'[1].payload.message = <<"Room", last'.roomId, "does not exist">>
           /\ rooms' = rooms
           /\ socketRooms' = socketRooms ]_vars

\* a socket that sits in R1 sends leave_room for R2, which does not exist
C11_Witness ==
    /\ last.type = "leave_room"
    /\ last.roomId = "R2"
    /\ ~roomExists(rooms, "R2")
    /\ roomExists(rooms, "R1")
    /\ "R1" \in socketRooms[last.socket]
    /\ Len(outbox) = 1
    /\ outbox[1].payload.status = "error"

\* ---------------------------------------------------------------------------
\* C12: a join_room, send_message or leave_room with a required field missing
\* sends exactly one error response to the acting connection and nothing to
\* anybody else, and leaves the registry and every group membership
\* unchanged; a join_room with a missing field does not leave the current
\* room.
\* ---------------------------------------------------------------------------
C12_FieldMissing(event) ==
    \/ /\ event.type = "join_room"
       /\ (event.roomId = Missing \/ event.playerName = Missing)
    \/ /\ event.type = "send_message"
       /\ (event.roomId = Missing \/ event.message = Missing)
    \/ /\ event.type = "leave_room"
       /\ event.roomId = Missing

C12_ResponseOf(type) ==
    IF type = "join_room" THEN "join_room_response"
    ELSE IF type = "send_message" THEN "message_response"
    ELSE "leave_room_response"

C12_MissingFieldError ==
    [][ C12_FieldMissing(last') =>
           /\ Len(outbox') = 1
           /\ outbox'[1].event = C12_ResponseOf(last'.type)
           /\ outbox'[1].to = {last'.socket}
           /\ outbox'[1].payload.status = "error"
           /\ rooms' = rooms
           /\ socketRooms' = socketRooms ]_vars

\* a socket that sits in R1 sends join_room for R2 without a player name and
\* is still in R1
C12_Witness ==
    /\ last.type = "join_room"
    /\ last.roomId = "R2"
    /\ last.playerName = Missing
    /\ "R1" \in socketRooms[last.socket]
    /\ last.socket \in Occupants(rooms, "R1")
    /\ Len(outbox) = 1
    /\ outbox[1].payload.status = "error"

\* ---------------------------------------------------------------------------
\* C13: a leave_room for an existing room sent by an occupant removes the
\* connection from the room's transport group and from its player list; an
\* emptied room is deleted without a player_left, otherwise every remaining
\* occupant, and not the leaver, receives exactly one player_left with the
\* updated roster and count; the leaver then receives a success response.
\* ---------------------------------------------------------------------------
C13_ByOccupant(event, m) ==
    /\ event.type = "leave_room"
    /\ event.roomId # Missing
    /\ roomExists(m, event.roomId)
    /\ event.socket \in Occupants(m, event.roomId)

C13_LeaveStep ==
    LET socket == last'.socket
        roomId == last'.roomId
        remaining == getRoomPlayers(rooms', roomId)
        lefts == {i \in 1..Len(outbox') : outbox'[i].event = "player_left"}
    IN /\ roomId \notin socketRooms'[socket]
       /\ socket \notin Occupants(rooms', roomId)
       /\ IF Len(remaining) = 0
          THEN /\ ~roomExists(rooms', roomId)
               /\ lefts = {}
          ELSE /\ roomExists(rooms', roomId)
               /\ Cardinality(lefts) = 1
               /\ \A i \in lefts :
                     /\ outbox'[i].to = Live(Occupants(rooms', roomId))
                     /\ socket \notin outbox'[i].to
                     /\ outbox'[i].payload.players = remaining
                     /\ outbox'[i].payload.playerCount = Len(remaining)
       /\ outbox'[Len(outbox')].event = "leave_room_response"
       /\ outbox'[Len(outbox')].to = {socket}
       /\ outbox'[Len(outbox')].payload.status = "success"

C13_LeaveByOccupant ==
    [][ C13_ByOccupant(last', rooms) => C13_LeaveStep ]_vars

\* the same, from states in which the registry and the groups agree and no
\* list holds a connection twice: there the leave_room handler does as C13
\* says
C13_HoldsWhenConsistent ==
    [][ (C13_ByOccupant(last', rooms) /\ C3_NoDuplicateEntries /\ C4_GroupsMatchRegistry)
           => C13_LeaveStep ]_vars

\* ---------------------------------------------------------------------------
\* C14: a game_move (roomId and board present) or game_reset (roomId present)
\* sent by an occupant of a room is delivered exactly once to every other
\* occupant of the room and never back to the sender.
\* ---------------------------------------------------------------------------
C14_Relayed ==
    /\ last.type \in {"game_move", "game_reset"}
    /\ last.roomId # Missing
    /\ last.type = "game_move" => last.board # Missing
    /\ last.socket \in Occupants(rooms, last.roomId)

C14_RelayReachesOthers ==
    C14_Relayed
    => /\ Len(outbox) = 1
       /\ outbox[1].event = last.type
       /\ outbox[1].to = Live(Occupants(rooms, last.roomId)) \ {last.socket}

\* what the handlers do: one emission to the transport group of the room
\* without the sender
C14_RelayReachesGroup ==
    (/\ last.type \in {"game_move", "game_reset"}
     /\ last.roomId # Missing
     /\ last.type = "game_move" => last.board # Missing)
    => /\ Len(outbox) = 1
       /\ outbox[1].event = last.type
       /\ outbox[1].to = IoTo(socketRooms, last.roomId) \ {last.socket}
       /\ last.socket \notin outbox[1].to

\* ---------------------------------------------------------------------------
\* C15: when a connection that is in room A joins a different room B, it is
\* removed from A, and the join emits no player_left and no other event to
\* A's occupants.
\* ---------------------------------------------------------------------------
C15_Joins(event) ==
    /\ event.type = "join_room"
    /\ event.roomId # Missing
    /\ event.playerName # Missing

C15_ForcedLeave ==
    [][ C15_Joins(last') =>
           \A A \in RoomsOf(rooms, last'.socket) \ {last'.roomId} :
              /\ A \notin socketRooms'[last'.socket]
              /\ last'.socket \notin Occupants(rooms', A)
              /\ \A i \in 1..Len(outbox') : outbox'[i].target # A ]_vars

\* what the handler does: the connection leaves the transport group of A and
\* nothing is emitted to A; the player list of A is left as it was
C15_ForcedLeaveOfGroup ==
    [][ C15_Joins(last') =>
           \A A \in RoomIds \ {last'.roomId} :
              /\ A \notin socketRooms'[last'.socket]
              /\ getRoomPlayers(rooms', A) = getRoomPlayers(rooms, A)
              /\ \A i \in 1..Len(outbox') : outbox'[i].target # A ]_vars

\* ---------------------------------------------------------------------------
\* C16: a game_start for a room with 2 or more players sends every player of
\* the room's player list exactly one game_start, individually, whose payload
\* holds the full roster with symbols and whose playerSymbol is the symbol
\* the roster lists for that recipient.
\* ---------------------------------------------------------------------------
C16_Started ==
    /\ last.type = "game_start"
    /\ last.roomId # Missing
    /\ last.gameType # Missing
    /\ Len(getRoomPlayers(rooms, last.roomId)) >= 2

\* emission i is the game_start of the k-th entry of the player list
C16_StartOf(i, k, players) ==
    /\ outbox[i].event = "game_start"
    /\ outbox[i].target = players[k].socketId
    /\ outbox[i].to = Live({players[k].socketId})
    /\ Len(outbox[i].payload.players) = Len(players)
    /\ \A j \in 1..Len(players) :
          /\ outbox[i].payload.players[j].socketId = players[j].socketId
          /\ outbox[i].payload.players[j].name = players[j].name
    /\ outbox[i].payload.playerSymbol = outbox[i].payload.players[k].symbol

C16_EveryPlayerStarted ==
    C16_Started
    => LET players == getRoomPlayers(rooms, last.roomId)
       IN /\ Len(outbox) = Len(players)
          /\ \A k \in 1..Len(players) : C16_StartOf(k, k, players)

\* what the handler does: two emissions, to the first and to the second entry
\* of the player list, however many entries the list has
C16_FirstTwoStarted ==
    C16_Started
    => LET players == getRoomPlayers(rooms, last.roomId)
       IN /\ Len(outbox) = 2
          /\ \A k \in 1..2 : C16_StartOf(k, k, players)

\* ---------------------------------------------------------------------------
\* C17: every connection receives connection_response exactly once over its
\* lifetime, carrying its own connection id, and it is the first outbound
\* event delivered to that connection.
\* ---------------------------------------------------------------------------
C17_ConnectionResponseFirstOnce ==
    /\ \A s \in Sockets :
          IF conn[s] = "new"
          THEN inbox[s] = [first |-> "none", responses |-> 0]
          ELSE inbox[s] = [first |-> "connection_response", responses |-> 1]
    /\ \A i \in Emitted("connection_response") :
          /\ outbox[i].to = {outbox[i].payload.socketId}
          /\ last.type = "connection"
          /\ last.socket = outbox[i].payload.socketId
    /\ \A i \in 1..Len(outbox) : \A s \in outbox[i].to : conn[s] = "open"

\* a socket that connected second has been delivered a later event (the
\* other socket's message) and still counts one connection_response, its first
C17_Witness ==
    /\ last.type = "send_message"
    /\ \E i \in Emitted("receive_message") :
          \E s \in outbox[i].to :
             /\ s # last.socket
             /\ inbox[s] = [first |-> "connection_response", responses |-> 1]
             /\ inbox[last.socket].responses = 1

\* ---------------------------------------------------------------------------
\* C18: createRoom on an id that already exists overwrites the room with an
\* empty player list, but join_room calls it only when roomExists is false in
\* the same handler run, so a join into an existing room never removes, resets
\* or reorders the players already listed: the list after the join is the
\* list before it with the joiner's entry appended (two connections joining
\* the same absent room end with both listed, in processing order).
\* ---------------------------------------------------------------------------
C18_Overwrites ==
    \A r \in RoomIds :
       roomExists(rooms, r)
       => /\ Len(getRoomPlayers(rooms, r)) >= 1
          /\ getRoomPlayers(createRoom(rooms, r), r) = <<>>

C18_JoinStep ==
    (/\ last'.type = "join_room"
     /\ last'.roomId # Missing
     /\ last'.playerName # Missing)
    => /\ \E entry \in Range(getRoomPlayers(rooms', last'.roomId)) :
             /\ entry.socketId = last'.socket
             /\ entry.name = last'.playerName
             /\ getRoomPlayers(rooms', last'.roomId)
                   = Append(getRoomPlayers(rooms, last'.roomId), entry)
       /\ \A r \in RoomIds \ {last'.roomId} :
             getRoomPlayers(rooms', r) = getRoomPlayers(rooms, r)

C18_JoinKeepsPlayers == [](C18_Overwrites) /\ [][C18_JoinStep]_vars

\* two sockets have joined the same room and are listed in processing order
C18_Witness ==
    /\ last.type = "join_room"
    /\ last.roomId # Missing
    /\ LET players == getRoomPlayers(rooms, last.roomId)
       IN /\ Len(players) = 2
          /\ players[1].socketId # players[2].socketId
          /\ players[2].socketId = last.socket
          /\ players[1].joinedAt < players[2].joinedAt

\* ---------------------------------------------------------------------------
\* C19: registry failure results leave the state unchanged. addPlayerToRoom on
\* an absent room returns false and creates no room; removePlayerFromRoom
\* returns false and changes nothing when the room is absent or holds no entry
\* with that connection id, and otherwise removes exactly one entry (the first
\* with that id) and returns true; deleteRoom returns true exactly when the
\* room existed.
\* ---------------------------------------------------------------------------
C19_AddStep(roomId, socketId) ==
    LET before == RoomValues(objects, roomsMap)
        after == RoomValues(objects', roomsMap')
    IN (CallAddPlayerToRoom(roomId, NewPlayer(roomId, socketId))
        /\ ~roomExists(before, roomId))
       => /\ result' = Returned(FALSE)
          /\ after = before
          /\ roomsMap' = roomsMap

C19_RemoveStep(roomId, socketId) ==
    LET before == RoomValues(objects, roomsMap)
        after == RoomValues(objects', roomsMap')
        players == getRoomPlayers(before, roomId)
        hits == {i \in 1..Len(players) : players[i].socketId = socketId}
    IN CallRemovePlayerFromRoom(roomId, socketId)
       => IF ~roomExists(before, roomId) \/ hits = {}
          THEN /\ result' = Returned(FALSE)
               /\ after = before
          ELSE LET first == CHOOSE i \in hits : \A j \in hits : i <= j
               IN /\ result' = Returned(TRUE)
                  /\ roomsMap' = roomsMap
                  /\ getRoomPlayers(after, roomId)
                        = [k \in 1..(Len(players) - 1) |->
                              IF k < first THEN players[k] ELSE players[k + 1]]
                  /\ \A i \in 1..Len(before) :
                        before[i].id # roomId => after[i] = before[i]

C19_DeleteStep(roomId) ==
    LET before == RoomValues(objects, roomsMap)
        after == RoomValues(objects', roomsMap')
    IN CallDeleteRoom(roomId)
       => /\ result' = Returned(roomExists(before, roomId))
          /\ ~roomExists(after, roomId)
          /\ ~roomExists(before, roomId) => after = before

C19_FailureResults ==
    [][\A roomId \in ServiceRoomIds :
          /\ C19_DeleteStep(roomId)
          /\ \A socketId \in Sockets :
                /\ C19_AddStep(roomId, socketId)
                /\ C19_RemoveStep(roomId, socketId)]_vars

\* a removal has returned true and left a list whose only entry was added
\* second: the first entry is the one that went
C19_Witness ==
    /\ result = Returned(TRUE)
    /\ \E roomId \in ServiceRoomIds :
          LET players == getRoomPlayers(RoomValues(objects, roomsMap), roomId)
          IN /\ Len(players) = 1
             /\ players[1].joinedAt = 2

\* ---------------------------------------------------------------------------
\* C20: the sequence returned by getAllRooms is a snapshot at call time: no
\* later registry mutation (createRoom, deleteRoom, addPlayerToRoom,
\* removePlayerFromRoom, updateGameState) changes the rooms or the room
\* contents (player lists) visible through a previously returned sequence.
\* ---------------------------------------------------------------------------
C20_ReturnedIsSnapshot ==
    [][(returned.taken /\ returned' = returned)
       => ReturnedRooms(objects', returned') = ReturnedRooms(objects, returned)]_vars

\* what does hold: which Room objects the returned array holds, and their
\* ids, are those of the call, whatever the Map does afterwards
C20_ReturnedHoldsSameRooms ==
    [][(returned.taken /\ returned' = returned)
       => /\ Len(ReturnedRooms(objects', returned')) = Len(ReturnedRooms(objects, returned))
          /\ \A i \in 1..Len(returned.refs) :
                ReturnedRooms(objects', returned')[i].id
                   = ReturnedRooms(objects, returned)[i].id]_vars

\* the service driven directly and the registry operators the handlers use
\* compute the same Map and the same results
C19_AgreesWithHandlers ==
    [][\A roomId \in ServiceRoomIds :
          LET before == RoomValues(objects, roomsMap)
              after == RoomValues(objects', roomsMap')
          IN /\ CallDeleteRoom(roomId)
                => /\ after = deleteRoom(before, roomId)
                   /\ result' = Returned(deleteRoomResult(before, roomId))
             /\ \A socketId \in Sockets :
                   /\ CallAddPlayerToRoom(roomId, NewPlayer(roomId, socketId))
                      => /\ after = addPlayerToRoom(before, roomId,
                                                    NewPlayer(roomId, socketId))
                         /\ result' = Returned(addPlayerToRoomResult(before, roomId))
                   /\ CallRemovePlayerFromRoom(roomId, socketId)
                      => /\ after = removePlayerFromRoom(before, roomId, socketId)
                         /\ result' = Returned(removePlayerFromRoomResult(
                                                  before, roomId, socketId))
             /\ CallCreateRoom(roomId) => after = createRoom(before, roomId)]_vars

\* ---------------------------------------------------------------------------
\* C21: after the disconnect handler of a connection has run, no room in the
\* registry contains a player entry with that connection's id, whatever
\* join_room and leave_room events the connection sent before; consequently,
\* once every connection that ever joined has disconnected, the registry
\* contains no rooms.
\* ---------------------------------------------------------------------------
C21_NoEntryAfterDisconnect ==
    /\ \A s \in Sockets :
          conn[s] = "closed" => \A r \in RoomIds : s \notin Occupants(rooms, r)
    /\ (\A s \in Sockets : conn[s] # "open") => rooms = <<>>

\* the number of entries a socket has in a player list
C21_Entries(m, r, socket) ==
    Cardinality({i \in 1..Len(getRoomPlayers(m, r)) :
                    getRoomPlayers(m, r)[i].socketId = socket})

\* what the handler does: it takes one entry of the socket out of every room
\* that lists it, so it leaves none where no list held the socket twice
C21_RemovesOneEntryPerRoom ==
    [][ last'.type = "disconnect" =>
           \A r \in RoomIds :
              LET before == C21_Entries(rooms, r, last'.socket)
              IN C21_Entries(rooms', r, last'.socket)
                    = IF before = 0 THEN 0 ELSE before - 1 ]_vars

\* ---------------------------------------------------------------------------
\* C22: a player_left event is broadcast to a room only in a handler run in
\* which a player entry was actually removed from that room's registry player
\* list; a leave_room sent by a connection that is not listed in the named
\* (existing) room removes nothing and emits no player_left to that room.
\* ---------------------------------------------------------------------------
\* this step's handler run took one entry out of room r's player list
C22_EntryRemoved(r) ==
    Len(getRoomPlayers(rooms', r)) = Len(getRoomPlayers(rooms, r)) - 1

C22_PlayerLeftOnlyOnRemoval ==
    [][ \A i \in 1..Len(outbox') :
           outbox'[i].event = "player_left"
           => C22_EntryRemoved(outbox'[i].target) ]_vars

\* what does hold: a player_left of a disconnect, or of a leave_room sent by
\* a connection the room lists, goes with a removal; and a leave_room by a
\* connection the room does not list removes nothing
C22_HoldsForListed ==
    [][ /\ \A i \in 1..Len(outbox') :
              (/\ outbox'[i].event = "player_left"
               /\ \/ last'.type = "disconnect"
                  \/ last'.socket \in Occupants(rooms, outbox'[i].target))
              => C22_EntryRemoved(outbox'[i].target)
        /\ (/\ last'.type = "leave_room"
            /\ last'.socket \notin Occupants(rooms, last'.roomId))
           => rooms' = rooms ]_vars

\* ---------------------------------------------------------------------------
\* C23: room isolation. A send_message, game_move or game_reset event naming
\* room R causes an event to be delivered to occupants of R only if the
\* sending connection is itself currently an occupant of R; a connection
\* outside R cannot inject receive_message, game_move or game_reset into R.
\* ---------------------------------------------------------------------------
C23_Relays == {"send_message", "game_move", "game_reset"}

\* the latest handler run delivered a relayed event to somebody
C23_Delivered ==
    \E i \in 1..Len(outbox) :
       /\ outbox[i].event \in {"receive_message", "game_move", "game_reset"}
       /\ outbox[i].target = last.roomId
       /\ outbox[i].to # {}

\* the sender is of the room: listed in its player list, or in its group
C23_Isolated ==
    (last.type \in C23_Relays /\ C23_Delivered)
    => \/ last.socket \in Occupants(rooms, last.roomId)
       \/ last.socket \in IoTo(socketRooms, last.roomId)

\* what does hold: a relayed event reaches sockets of the named room's group
\* only, never a socket of another room
C23_StaysInNamedGroup ==
    last.type \in C23_Relays
    => \A i \in 1..Len(outbox) :
          outbox[i].target = last.roomId
          => outbox[i].to \subseteq IoTo(socketRooms, last.roomId)

\* ---------------------------------------------------------------------------
\* C24: send_message, game_start, game_move and game_reset are pure fan-out:
\* none of them changes the set of rooms, any room's player list, any room's
\* gameState, or any connection's group membership; since no handler calls
\* updateGameState, every room's gameState is its initial null value in every
\* reachable state.
\* ---------------------------------------------------------------------------
C24_FanOut == {"send_message", "game_start", "game_move", "game_reset"}

C24_GameStateNull == \A i \in 1..Len(rooms) : rooms[i].gameState = "null"

C24_PureFanOut ==
    /\ [](C24_GameStateNull)
    /\ [][ last'.type \in C24_FanOut
           => /\ rooms' = rooms
              /\ socketRooms' = socketRooms
              /\ conn' = conn ]_vars

\* a game_move has been relayed to another socket of a room the registry holds
C24_Witness ==
    /\ last.type = "game_move"
    /\ roomExists(rooms, last.roomId)
    /\ \E i \in Emitted("game_move") : outbox[i].to # {}
    /\ C24_GameStateNull
====
